---- MODULE Spec2Model ----
(***************************************************************************)
(* Model of the catalogue scrapers of Book-Price-Predictor:                *)
(*   src/scraping/scrape_books_bs.py    sequential crawl of the catalogue  *)
(*   src/scraping/scrape_local_async.py concurrent parse of local pages    *)
(*                                                                         *)
(* Python values are represented as follows.                               *)
(*   list      a sequence                                                  *)
(*   dict      a record or a function                                      *)
(*   a value stored in a record of the data set: None, Str(text) or        *)
(*             Num(number); a text is a string, or a sequence of           *)
(*             characters or chunks where the code looks inside it         *)
(*   an element a lookup may not find: None, or Some(element)              *)
(***************************************************************************)
EXTENDS Integers, Sequences, FiniteSets, TLC

VARIABLES
    fn,            \* which function the unit specifications exercise
    arg,           \* its argument
    ret,           \* its result, NotCalled before the call
    pc,            \* where main() of scrape_books_bs.py stands
    page_url,      \* scrape_books: locator of the listing page to fetch
    page_number,   \* scrape_books: page counter
    soup,          \* scrape_books: the listing document being read
    product_list,  \* scrape_books: its article.product_pod containers
    idx,           \* scrape_books: 1-based position of the for loop
    product,       \* scrape_books: the entry the for loop last read
    books_data,    \* scrape_books: the accumulator
    df,            \* the DataFrame scrape_books returns, None before
    csv_file,      \* the file to_csv wrote, None before
    error,         \* the exception that left main(), None if none
    requests_log,  \* every requests.get issued, in order
    sources,       \* for each accumulated record, <<page, container>>
    visited,       \* for each listing parsed, its locator and containers
    html_dir,      \* scrape_local_async: the files of the pages directory
    tasks,         \* scrape_all_pages_async: the files, in submission order
    units,         \* for each task, where it stands and what it returned
    records,       \* scrape_all_pages_async: the flattened results
    completion     \* the tasks in the order their threads finished

unitVars == <<fn, arg, ret>>
crawlVars == <<pc, page_url, page_number, soup, product_list, idx, product,
               books_data,
               df, csv_file, error, requests_log, sources, visited>>
asyncVars == <<html_dir, tasks, units, records, completion>>
vars == <<unitVars, crawlVars, asyncVars>>

\* ------------------------------------------------------------------ bounds

MaxChunks == 3       \* longest rating string, in chunks
MaxSuffixLen == 6    \* longest href suffix, in characters
MaxK == 3            \* most "../" repetitions in front of a suffix

\* ----------------------------------------------------------- Python values

None == <<>>
Some(v) == <<v>>
Str(text) == <<"str", text>>
Num(number) == <<"num", number>>
IsStr(v) == v # None /\ v[1] = "str"
IsNum(v) == v # None /\ v[1] = "num"
NotCalled == [called |-> FALSE]
Returned(v) == [called |-> TRUE, raised |-> FALSE, value |-> v]
Raised(e) == [called |-> TRUE, raised |-> TRUE, error |-> e]

\* All sequences over S of length at most n.
SeqUpTo(S, n) == UNION {[1..m -> S] : m \in 0..n}

\* The crawl's variables while a unit specification runs: main() not started.
CrawlIdle ==
    /\ pc = "idle"
    /\ page_url = None /\ page_number = 0
    /\ soup = None /\ product_list = <<>> /\ idx = 0 /\ product = None
    /\ books_data = <<>> /\ df = None /\ csv_file = None
    /\ error = None /\ requests_log = <<>>
    /\ sources = <<>> /\ visited = <<>>
    /\ html_dir = {} /\ tasks = <<>> /\ units = <<>>
    /\ records = None /\ completion = <<>>

\* ------------------------------------------------------------ parse_rating

Whitespace == {" ", "\t"}
Vocabulary == {"Zero", "One", "Two", "Three", "Four", "Five"}
\* Text chunks a rating string is built from; no concatenation of chunks
\* spells another chunk sequence.
RatingChunks == Vocabulary \cup Whitespace \cup {"three", "Zero-typo"}

ratings_map ==
    [w \in Vocabulary |->
        CASE w = "Zero" -> 0 [] w = "One" -> 1 [] w = "Two" -> 2
          [] w = "Three" -> 3 [] w = "Four" -> 4 [] w = "Five" -> 5]

RECURSIVE LStrip(_)
LStrip(s) ==
    IF s # <<>> /\ Head(s) \in Whitespace THEN LStrip(Tail(s)) ELSE s

RECURSIVE RStrip(_)
RStrip(s) ==
    IF s # <<>> /\ s[Len(s)] \in Whitespace
    THEN RStrip(SubSeq(s, 1, Len(s) - 1)) ELSE s

\* str.strip()
Strip(s) == RStrip(LStrip(s))

\* dict.get(key, default)
DictGet(d, key, default) ==
    IF Len(key) = 1 /\ key[1] \in DOMAIN d THEN d[key[1]] ELSE default

parse_rating_nostrip(rating_str) == DictGet(ratings_map, rating_str, 0)
parse_rating(rating_str) == DictGet(ratings_map, Strip(rating_str), 0)

InitRating ==
    /\ fn = "parse_rating"
    /\ arg \in SeqUpTo(RatingChunks, MaxChunks)
    /\ ret = NotCalled
    /\ CrawlIdle

CallParseRating ==
    /\ fn = "parse_rating"
    /\ ret = NotCalled
    /\ ret' = Returned(parse_rating(arg))
    /\ UNCHANGED <<fn, arg, crawlVars, asyncVars>>

NextRating == CallParseRating
SpecRating == InitRating /\ [][NextRating]_vars

\* ------------------------------------------------- locator resolution

Chars == {".", "/", "a"}
DotDotSlash == <<".", ".", "/">>
TripleDotDotSlash == DotDotSlash \o DotDotSlash \o DotDotSlash
\* BASE_URL + "catalogue/", two atomic chunks in front of the characters
BASE_URL == <<"https://books.toscrape.com/">>
CatalogueRoot == BASE_URL \o <<"catalogue/">>

StartsWith(s, pat) == Len(s) >= Len(pat) /\ SubSeq(s, 1, Len(pat)) = pat

\* str.replace(pat, ""): the non-overlapping occurrences, leftmost first
RECURSIVE Remove(_, _)
Remove(s, pat) ==
    IF s = <<>> THEN <<>>
    ELSE IF StartsWith(s, pat)
         THEN Remove(SubSeq(s, Len(pat) + 1, Len(s)), pat)
         ELSE <<Head(s)>> \o Remove(Tail(s), pat)

Contains(s, pat) ==
    \E i \in 1..Len(s) : StartsWith(SubSeq(s, i, Len(s)), pat)

ProductUrlTripleOnly(relative_link) ==
    CatalogueRoot \o Remove(relative_link, TripleDotDotSlash)
ProductUrl(relative_link) ==
    CatalogueRoot \o Remove(Remove(relative_link, TripleDotDotSlash), DotDotSlash)

RECURSIVE Repeat(_, _)
Repeat(s, k) == IF k = 0 THEN <<>> ELSE s \o Repeat(s, k - 1)

InitLocator ==
    /\ fn = "product_url"
    /\ arg \in [k : 0..MaxK, suffix : SeqUpTo(Chars, MaxSuffixLen)]
    /\ ret = NotCalled
    /\ CrawlIdle

CallProductUrl ==
    /\ fn = "product_url"
    /\ ret = NotCalled
    /\ ret' = Returned(ProductUrl(Repeat(DotDotSlash, arg.k) \o arg.suffix))
    /\ UNCHANGED <<fn, arg, crawlVars, asyncVars>>

NextLocator == CallProductUrl
SpecLocator == InitLocator /\ [][NextLocator]_vars

\* ------------------------------------------------------ parse_product_page

MaxCrumbs == 3       \* most links in a breadcrumb trail
MaxTableRows == 2    \* most rows in a product information table

\* Text of the i-th breadcrumb link: Home > Books > Category > ...
CrumbTexts == <<"Home", "Books", "Poetry", "Sonnets", "More">>
TableKeys == {"UPC", "Color"}
CellTexts == {"", "x"}
\* A table row: its th and td cells, each absent (None) or holding a text.
TableRows == [th : {None} \cup {Some(k) : k \in TableKeys},
              td : {None} \cup {Some(t) : t \in CellTexts}]
\* A detail document: the number of links of ul.breadcrumb, the table
\* (None when absent) and div#product_description (None when absent),
\* which holds the p that follows it (None when none does) by its text.
DetailDocs ==
    [crumbs : 0..MaxCrumbs,
     table : {None} \cup {Some(rows) : rows \in SeqUpTo(TableRows, MaxTableRows)},
     description_tag : {None, Some(None)}
                         \cup {Some(Some(t)) : t \in {"", "Lorem"}}]

DetailFields ==
    <<"upc", "product_type", "price_excl_tax", "price_incl_tax", "tax",
      "availability_detail", "num_reviews", "category", "description">>
\* The table key each of the seven table fields is looked up by.
TableKeyOf(f) ==
    CASE f = "upc" -> "UPC"
      [] f = "product_type" -> "Product Type"
      [] f = "price_excl_tax" -> "Price (excl. tax)"
      [] f = "price_incl_tax" -> "Price (incl. tax)"
      [] f = "tax" -> "Tax"
      [] f = "availability_detail" -> "Availability"
      [] f = "num_reviews" -> "Number of reviews"

\* for row in rows: product_info[row.th.get_text()] = row.td.get_text();
\* a row without th or td makes row.th / row.td None and the call raise.
RowRaises(row) == row.th = None \/ row.td = None

RECURSIVE ProductInfo(_)
ProductInfo(rows) ==
    IF rows = <<>> THEN <<>>
    ELSE LET init == ProductInfo(SubSeq(rows, 1, Len(rows) - 1))
             last == rows[Len(rows)]
         IN  \* pairs <<key, value>>, the last assignment to a key wins
             SelectSeq(init, LAMBDA kv : kv[1] # last.th[1])
               \o <<<<last.th[1], last.td[1]>>>>

\* product_info.get(key)
InfoGet(info, key) ==
    IF \E i \in 1..Len(info) : info[i][1] = key
    THEN Str(info[CHOOSE i \in 1..Len(info) : info[i][1] = key][2])
    ELSE None

\* parse_product_page after get_soup returned the document
ParseDetail(doc) ==
    LET rows == IF doc.table = None THEN <<>> ELSE doc.table[1]
        info == ProductInfo(rows)
    IN  IF \E i \in 1..Len(rows) : RowRaises(rows[i])
        THEN Raised("AttributeError")
        ELSE IF doc.description_tag = Some(None)
        THEN Raised("AttributeError")
        ELSE Returned(
          [f \in {DetailFields[i] : i \in 1..Len(DetailFields)} |->
             CASE f = "category" ->
                    IF doc.crumbs > 2 THEN Str(CrumbTexts[3]) ELSE None
               [] f = "description" ->
                    IF doc.description_tag = None
                    THEN None ELSE Str(doc.description_tag[1][1])
               [] OTHER -> InfoGet(info, TableKeyOf(f))])

InitDetail ==
    /\ fn = "parse_product_page"
    /\ arg \in DetailDocs
    /\ ret = NotCalled
    /\ CrawlIdle

CallParseDetail ==
    /\ fn = "parse_product_page"
    /\ ret = NotCalled
    /\ ret' = ParseDetail(arg)
    /\ UNCHANGED <<fn, arg, crawlVars, asyncVars>>

NextDetail == CallParseDetail
SpecDetail == InitDetail /\ [][NextDetail]_vars

\* ------------------------------------------------------------ the site

MaxPages == 2        \* length of the longest chain of listing pages
MaxElems == 2        \* most elements in a listing document

\* File names of the listing pages, in chain order.
PageNames == <<"index.html", "page-2.html", "page-3.html", "page-4.html">>
\* The locator the crawl uses for the n-th listing page (lines 151, 194, 197).
PageUrl(n) ==
    IF n = 1 THEN BASE_URL \o <<PageNames[1]>>
    ELSE BASE_URL \o <<"catalogue/", PageNames[n]>>
PageOf(url) == CHOOSE n \in 1..Len(PageNames) : PageUrl(n) = url

\* The href of the "next" link to page n, in the two forms the site uses.
NextHrefs(n) == {<<"catalogue/", PageNames[n]>>, <<PageNames[n]>>}

\* A listing document: its elements in document order by tag, and li.next:
\* None when absent, Some(None) when it holds no <a>, else Some(Some(href)).
Tags == {"article.product_pod", "div"}
ListingDocs(n) ==
    [elements : SeqUpTo(Tags, MaxElems),
     next : {None, Some(None)} \cup
            (IF n < MaxPages THEN {Some(Some(h)) : h \in NextHrefs(n + 1)}
             ELSE {})]

\* Characters of a price text.
Digits == {"0", "1", "2", "3", "4", "5", "6", "7", "8", "9"}
\* A listing entry (one article.product_pod): each mandatory element is
\* None when absent from the entry.
\*   anchor       h3 > a: [title and href: the attribute or None, text]
\*   price_color  text of p.price_color
\*   instock      text of p.instock.availability
\*   star         class list of p.star-rating
Alpha ==
    [anchor |-> Some([title |-> Some("Alpha"), text |-> "Alp...",
                      href |-> Some(<<".", ".", "/", "a">>)]),
     price_color |-> Some(<<"£", "1", "2", ".", "5", "0">>),
     instock |-> Some("In stock (5 available)"),
     star |-> Some(<<"star-rating", "Three">>)]
Beta ==
    [anchor |-> Some([title |-> None, text |-> "Beta",
                      href |-> Some(<<"a", "/", "a">>)]),
     price_color |-> Some(<<"£", "7", ".", "0", "0">>),
     instock |-> Some("In stock (1 available)"),
     star |-> Some(<<"star-rating", "Zero-typo">>)]
\* An entry whose detail page has a description anchor and no p after it.
Gamma ==
    [Beta EXCEPT !.anchor = Some([title |-> None, text |-> "Gamma",
                                  href |-> Some(<<".", ".", "/", "a", "/", "/">>)])]
\* The catalogue alternates the two kinds of book: what the container at a
\* position of a listing holds when the site serves it whole.
BookAt(position) == IF position % 2 = 1 THEN Alpha ELSE Beta
MalformedEntries ==
    {[Alpha EXCEPT !.anchor = None],
     [Alpha EXCEPT !.anchor = Some([title |-> Some("Alpha"), text |-> "Alp...",
                                    href |-> None])],
     [Alpha EXCEPT !.price_color = None],
     [Alpha EXCEPT !.price_color = Some(<<"£">>)],
     [Alpha EXCEPT !.instock = None],
     [Alpha EXCEPT !.star = None]}
\* What a container at a position may hold.
EntriesAt(position) == {BookAt(position), Gamma} \cup MalformedEntries

\* The detail document the site serves at a product locator.
DetailPage(url) ==
    IF url = CatalogueRoot \o <<"a">>
    THEN [crumbs |-> 3,
          table |-> Some(<<[th |-> Some("UPC"), td |-> Some("x")],
                           [th |-> Some("Color"), td |-> Some("")]>>),
          description_tag |-> Some(Some("Lorem"))]
    ELSE IF url = CatalogueRoot \o <<"a", "/", "a">>
    THEN [crumbs |-> 2, table |-> None, description_tag |-> None]
    ELSE [crumbs |-> 3, table |-> Some(<<>>), description_tag |-> Some(None)]

\* Response statuses of the site.
Statuses == {200, 404, 500}

\* ---------------------------------------------------------------- get_soup

\* response.raise_for_status(): HTTPError for a 4xx or 5xx status, naming
\* the status and the url.
RaiseForStatus(url, status) ==
    IF status >= 400
    THEN Raised([type |-> "HTTPError", status |-> status, url |-> url])
    ELSE Returned(None)

\* The requests.get calls one get_soup(url) call issues.
RequestsOfRetrying(url, status) ==
    IF status >= 400 THEN <<url, url>> ELSE <<url>>
RequestsOf(url, status) == <<url>>

\* ------------------------------------------------------ the listing entry

\* re.sub(r"[^0-9.]+", "", price_text)
KeepNumeric(text) == SelectSeq(text, LAMBDA c : c \in Digits \cup {"."})

DigitValue(c) ==
    CHOOSE d \in 0..9 :
        <<"0", "1", "2", "3", "4", "5", "6", "7", "8", "9">>[d + 1] = c

RECURSIVE DigitsValue(_)
DigitsValue(ds) ==
    IF ds = <<>> THEN 0
    ELSE 10 * DigitsValue(SubSeq(ds, 1, Len(ds) - 1)) + DigitValue(ds[Len(ds)])

FloatOrZero(s) ==
    IF \E j \in 1..Len(s) : s[j] # "."
    THEN Returned(100 * DigitsValue(SelectSeq(s, LAMBDA c : c # ".")))
    ELSE Returned(0)
\* float(s) for a text of digits and points, in hundredths; ValueError
\* unless s holds a digit and at most one point.
Float(s) ==
    LET points == {j \in 1..Len(s) : s[j] = "."}
    IN  IF Cardinality(points) > 1 \/ Cardinality(points) = Len(s)
        THEN Raised([type |-> "ValueError"])
        ELSE LET dot == IF points = {} THEN Len(s) + 1
                        ELSE CHOOSE j \in points : TRUE
                 whole == SubSeq(s, 1, dot - 1)
                 frac == SubSeq(s, dot + 1, Len(s)) \o <<"0", "0">>
             IN  Returned(100 * DigitsValue(whole)
                            + DigitsValue(SubSeq(frac, 1, 2)))

\* Lines 160-172: the summary of one container, or the exception its
\* first missing mandatory element raises.
ParseEntry(entry) ==
    IF entry.anchor = None THEN Raised([type |-> "AttributeError"])
    ELSE IF entry.anchor[1].href = None THEN Raised([type |-> "KeyError"])
    ELSE IF entry.price_color = None THEN Raised([type |-> "AttributeError"])
    ELSE IF Float(KeepNumeric(entry.price_color[1])).raised
         THEN Raised([type |-> "ValueError"])
    ELSE IF entry.instock = None THEN Raised([type |-> "AttributeError"])
    ELSE IF entry.star = None THEN Raised([type |-> "TypeError"])
    ELSE LET title_tag == entry.anchor[1]
             star_classes == entry.star[1]
             rating_word == IF Len(star_classes) > 1
                            THEN <<star_classes[2]>> ELSE <<"Zero">>
         IN  Returned(
               [title |-> IF title_tag.title # None THEN title_tag.title[1]
                          ELSE title_tag.text,
                product_url |-> ProductUrl(title_tag.href[1]),
                price |-> Float(KeepNumeric(entry.price_color[1])).value,
                availability |-> entry.instock[1],
                rating |-> parse_rating(rating_word)])

SummaryColumns == <<"title", "price", "availability", "rating">>
Columns == SummaryColumns \o DetailFields
ColumnSet == {Columns[c] : c \in 1..Len(Columns)}

\* Lines 177-183: book_info
BookInfo(summary, details) ==
    [c \in ColumnSet |->
        CASE c = "title" -> Str(summary.title)
          [] c = "price" -> Num(summary.price)
          [] c = "availability" -> Str(summary.availability)
          [] c = "rating" -> Num(summary.rating)
          [] OTHER -> details[c]]

\* soup.find_all("article", class_="product_pod"): the positions of the
\* containers, in document order.
RECURSIVE FindAllFrom(_, _, _)
FindAllFrom(elements, tag, from) ==
    IF from > Len(elements) THEN <<>>
    ELSE (IF elements[from] = tag THEN <<from>> ELSE <<>>)
           \o FindAllFrom(elements, tag, from + 1)
FindAllReversed(elements, tag) ==
    LET found == FindAllFrom(elements, tag, 1)
    IN  [j \in 1..Len(found) |-> found[Len(found) + 1 - j]]
FindAll(elements, tag) == FindAllFrom(elements, tag, 1)

\* ----------------------------------------------------------------- the sink

\* pd.DataFrame(books_data): the rows in list order; no column when empty.
DataFrame(data) ==
    [columns |-> IF data = <<>> THEN <<>> ELSE Columns,
     rows |-> data]

\* One cell of df.to_csv(index=False, quoting=csv.QUOTE_NONNUMERIC): a
\* number is written bare, a str in quotes, and a missing value as
\* na_rep = "", a str, in quotes.
CsvCell(v) ==
    IF v = None THEN [quoted |-> TRUE, text |-> ""]
    ELSE IF IsNum(v) THEN [quoted |-> FALSE, text |-> v[2]]
    ELSE [quoted |-> TRUE, text |-> v[2]]

ToCsvReversed(frame) ==
    [header |-> frame.columns,
     lines |-> [r \in 1..Len(frame.rows) |->
                  [c \in 1..Len(frame.columns) |->
                     CsvCell(frame.rows[Len(frame.rows) + 1 - r][frame.columns[c]])]]]
ToCsv(frame) ==
    [header |-> frame.columns,
     lines |-> [r \in 1..Len(frame.rows) |->
                  [c \in 1..Len(frame.columns) |->
                     CsvCell(frame.rows[r][frame.columns[c]])]]]

\* One cell of pd.read_csv(path): an empty field is NaN, quoted or not.
ReadCell(cell) ==
    IF cell.quoted /\ cell.text = "" THEN None
    ELSE IF cell.quoted THEN Str(cell.text) ELSE Num(cell.text)

\* pd.read_csv(path)
ReadCsv(file) ==
    [r \in 1..Len(file.lines) |->
       [c \in {file.header[j] : j \in 1..Len(file.header)} |->
          ReadCell(file.lines[r][CHOOSE j \in 1..Len(file.header) :
                                    file.header[j] = c])]]

MaxCsvRows == 2      \* most rows of the frame the sink is called on

\* The records the crawl can build from one listing entry and one detail
\* document that parses.
SinkDetailDocs ==
    [crumbs : {2, 3},
     table : {None, Some(<<[th |-> Some("UPC"), td |-> Some("")]>>),
              Some(<<[th |-> Some("UPC"), td |-> Some("x")]>>)},
     description_tag : {None, Some(Some("")), Some(Some("Lorem"))}]
SinkRecords ==
    {BookInfo(ParseEntry(Alpha).value, ParseDetail(d).value) :
        d \in SinkDetailDocs}

InitSink ==
    /\ fn = "to_csv"
    /\ arg \in SeqUpTo(SinkRecords, MaxCsvRows)
    /\ ret = NotCalled
    /\ CrawlIdle

\* main(), line 213, on the frame of the records in arg
CallToCsv ==
    /\ fn = "to_csv"
    /\ csv_file = None
    /\ csv_file' = Some(ToCsv(DataFrame(arg)))
    /\ UNCHANGED <<unitVars, pc, page_url, page_number, soup, product_list,
                   idx, books_data, df, error, requests_log, sources, visited,
                   asyncVars,
                   product>>

\* load_data of the downstream pipeline on the file written
CallReadCsv ==
    /\ fn = "to_csv"
    /\ csv_file # None
    /\ ret = NotCalled
    /\ ret' = Returned(ReadCsv(csv_file[1]))
    /\ UNCHANGED <<fn, arg, crawlVars, asyncVars>>

NextSink == CallToCsv \/ CallReadCsv
SpecSink == InitSink /\ [][NextSink]_vars

\* ------------------------------------------------- scrape_books and main

\* main() called: scrape_books stands in front of its first get_soup.
InitCrawl ==
    /\ fn = "scrape_books_bs.main" /\ arg = None /\ ret = NotCalled
    /\ html_dir = {} /\ tasks = <<>> /\ units = <<>>
    /\ records = None /\ completion = <<>>
    /\ pc = "fetch_listing"
    /\ page_url = BASE_URL \o <<"index.html">>
    /\ page_number = 1
    /\ soup = None /\ product_list = <<>> /\ idx = 0 /\ product = None
    /\ books_data = <<>> /\ df = None /\ csv_file = None
    /\ error = None /\ requests_log = <<>>
    /\ sources = <<>> /\ visited = <<>>

FailAndGoOn(exception) ==
    /\ pc' = pc
    /\ error' = Some(exception)
\* An exception leaves the loop, scrape_books and main: nothing catches it.
Fail(exception) ==
    /\ pc' = "failed"
    /\ error' = Some(exception)

\* Lines 156-157: get_soup(page_url), then find_all.
FetchListing ==
    /\ pc = "fetch_listing"
    /\ \E status \in Statuses, doc \in ListingDocs(PageOf(page_url)) :
         /\ requests_log' = requests_log \o RequestsOf(page_url, status)
         /\ IF RaiseForStatus(page_url, status).raised
            THEN /\ Fail(RaiseForStatus(page_url, status).error)
                 /\ UNCHANGED <<soup, product_list, idx, visited>>
            ELSE /\ soup' = Some(doc)
                 /\ product_list' = FindAll(doc.elements, "article.product_pod")
                 /\ idx' = 1
                 /\ visited' = Append(visited,
                       [url |-> page_url, page |-> page_number,
                        containers |-> {j \in 1..Len(doc.elements) :
                                          doc.elements[j] = "article.product_pod"}])
                 /\ pc' = "products"
                 /\ UNCHANGED error
    /\ UNCHANGED <<unitVars, page_url, page_number, books_data, df, csv_file,
                   sources, asyncVars,
                   product>>

\* Lines 158-185: one iteration of the for loop, on the entry the
\* container holds and the status the detail request gets.
ProcessProduct ==
    /\ pc = "products"
    /\ idx <= Len(product_list)
    /\ \E entry \in EntriesAt(product_list[idx]), status \in Statuses :
         LET summary == ParseEntry(entry) IN
         /\ product' = Some(entry)
         /\ IF summary.raised
            THEN /\ Fail(summary.error)
                 /\ UNCHANGED <<requests_log, books_data, sources, idx>>
            ELSE LET url == summary.value.product_url
                     details == ParseDetail(DetailPage(url))
                 IN  /\ requests_log' = requests_log \o RequestsOf(url, status)
                     /\ IF RaiseForStatus(url, status).raised
                        THEN /\ Fail(RaiseForStatus(url, status).error)
                             /\ UNCHANGED <<books_data, sources, idx>>
                        ELSE IF details.raised
                        THEN /\ Fail([type |-> details.error])
                             /\ UNCHANGED <<books_data, sources, idx>>
                        ELSE /\ books_data' = Append(books_data,
                                    BookInfo(summary.value, details.value))
                             /\ sources' = Append(sources,
                                    <<page_number, product_list[idx]>>)
                             /\ idx' = idx + 1
                             /\ UNCHANGED <<pc, error>>
    /\ UNCHANGED <<unitVars, page_url, page_number, soup, product_list, df,
                   csv_file, visited, asyncVars>>

HasNextLinkNever(doc) == FALSE
\* li.next with an <a> in it (line 189)
HasNextLink(doc) == doc.next # None /\ doc.next[1] # None

NextPageUrlSame(next_href) == page_url
\* Lines 193-197
NextPageUrl(next_href) ==
    IF Contains(next_href, <<"catalogue/">>) THEN BASE_URL \o next_href
    ELSE BASE_URL \o <<"catalogue/">> \o next_href

\* Lines 187-204: after the last container, follow the next link, or
\* leave the loop and build the frame.
NextPage ==
    /\ pc = "products"
    /\ idx > Len(product_list)
    /\ IF HasNextLink(soup[1])
       THEN /\ page_url' = NextPageUrl(soup[1].next[1][1])
            /\ page_number' = page_number + 1
            /\ pc' = "fetch_listing"
            /\ UNCHANGED df
       ELSE /\ df' = Some(DataFrame(books_data))
            /\ pc' = "done"
            /\ UNCHANGED <<page_url, page_number>>
    /\ UNCHANGED <<unitVars, soup, product_list, idx, books_data, csv_file,
                   error, requests_log, sources, visited, asyncVars,
                   product>>

\* main(), line 213 (line 68 of scrape_local_async.py): the frame goes to
\* the sink.
WriteCsv ==
    /\ pc = "done"
    /\ csv_file' = Some(ToCsv(df[1]))
    /\ pc' = "saved"
    /\ UNCHANGED <<unitVars, page_url, page_number, soup, product_list, idx,
                   books_data, df, error, requests_log, sources, visited,
                   asyncVars,
                   product>>

\* ------------------------------------------------- scrape_local_async.py

MaxRecords == 3      \* most records the generator is asked for
MaxRowsPerPage == 2  \* largest rows_per_page the generator is given

\* A file name: stem, number (its decimal digits) and extension.
PageFile(n) == [stem |-> "page_", digits |-> <<n>>, ext |-> ".html"]
StrayFile == [stem |-> "page_", digits |-> <<1>>, ext |-> ".html.bak"]

\* save_html_pages: the page files written for total_records records.
NumPages(total_records, rows_per_page) ==
    (total_records + rows_per_page - 1) \div rows_per_page
\* The ids of the rows of page page_idx + 1 (df.iloc[start:end])
PageRows(total_records, rows_per_page, page_idx) ==
    LET start == page_idx * rows_per_page
        end == IF start + rows_per_page < total_records
               THEN start + rows_per_page ELSE total_records
    IN  [j \in 1..(end - start) |-> start + j]
SaveHtmlPages(total_records, rows_per_page) ==
    {[name |-> PageFile(n),
      rows |-> PageRows(total_records, rows_per_page, n - 1)] :
        n \in 1..NumPages(total_records, rows_per_page)}

\* Character codes, for the order of sorted(): '.' < '0'..'9' < letters.
NameKey(name) ==
    [j \in 1..Len(name.digits) |-> 48 + name.digits[j]] \o <<46>>
      \o (IF name.ext = ".html" THEN <<104>> ELSE <<104, 46>>)

RECURSIVE LexLess(_, _)
LexLess(a, b) ==
    IF a = <<>> THEN b # <<>>
    ELSE IF b = <<>> THEN FALSE
    ELSE IF Head(a) # Head(b) THEN Head(a) < Head(b)
    ELSE LexLess(Tail(a), Tail(b))

\* sorted(names), by the strings' order
RECURSIVE Sorted(_)
Sorted(names) ==
    IF names = {} THEN <<>>
    ELSE LET least == CHOOSE n \in names :
                        \A m \in names \ {n} : LexLess(NameKey(n), NameKey(m))
         IN  <<least>> \o Sorted(names \ {least})

AsyncColumns ==
    <<"id", "title", "category", "rating", "price", "availability",
      "description">>
numeric_cols == {"id", "rating", "price", "availability"}

\* The decimal digits of a number below 100.
DigitChars == <<"0", "1", "2", "3", "4", "5", "6", "7", "8", "9">>
Decimal(n) ==
    IF n < 10 THEN <<DigitChars[n + 1]>>
    ELSE <<DigitChars[(n \div 10) + 1], DigitChars[(n % 10) + 1]>>

\* parse_html_file(file_path): one dict of strings per row of the page's
\* table, in document order.
ParseHtmlFile(file) ==
    [j \in 1..Len(file.rows) |->
       [c \in {AsyncColumns[k] : k \in 1..Len(AsyncColumns)} |->
          CASE c = "id" -> Str(Decimal(file.rows[j]))
            [] c = "title" -> Str(<<"B", "o", "o", "k">>)
            [] c = "category" -> Str(<<"A", "r", "t">>)
            [] c = "rating" -> Str(<<"3">>)
            [] c = "price" -> Str(<<"1", "2", ".", "5">>)
            [] c = "availability" -> Str(<<"7">>)
            [] c = "description" -> Str(<<"L", "o", "r", "e", "m">>)]]

\* pd.to_numeric(column, errors='coerce'), cell by cell: the number a text
\* spells, NaN for a text that spells none.
ToNumeric(v) ==
    IF v = None THEN None
    ELSE IF IsNum(v) THEN v
    ELSE IF v[2] = <<>> \/ \E j \in 1..Len(v[2]) : v[2][j] \notin Digits \cup {"."}
    THEN None
    ELSE IF Float(v[2]).raised THEN None
    ELSE Num(Float(v[2]).value)

RECURSIVE Flatten(_)
Flatten(lists) ==
    IF lists = <<>> THEN <<>> ELSE Head(lists) \o Flatten(Tail(lists))

\* asyncio.run(scrape_all_pages_async(HTML_DIR)) called on a directory the
\* generator filled, with or without another file in it.
InitAsync ==
    /\ fn = "scrape_local_async.main" /\ arg = None /\ ret = NotCalled
    /\ pc = "create_tasks"
    /\ page_url = None /\ page_number = 0
    /\ soup = None /\ product_list = <<>> /\ idx = 0 /\ product = None
    /\ books_data = <<>> /\ df = None /\ csv_file = None
    /\ error = None /\ requests_log = <<>>
    /\ sources = <<>> /\ visited = <<>>
    /\ \E total_records \in 0..MaxRecords, rows_per_page \in 1..MaxRowsPerPage,
          stray \in SUBSET {[name |-> StrayFile, rows |-> <<>>]} :
         html_dir = SaveHtmlPages(total_records, rows_per_page) \cup stray
    /\ tasks = <<>> /\ units = <<>>
    /\ records = None /\ completion = <<>>

FileOf(name) == CHOOSE f \in html_dir : f.name = name

EndsWithAnything(name) == TRUE
\* filename.endswith('.html') (line 50)
EndsWithHtml(name) == name.ext = ".html"

\* Lines 48-53: one coroutine per .html file, in sorted order; line 54 then
\* hands them to gather, which schedules them all.
CreateTasks ==
    /\ pc = "create_tasks"
    /\ tasks' = SelectSeq(Sorted({f.name : f \in html_dir}),
                           LAMBDA name : EndsWithHtml(name))
    /\ units' = [t \in 1..Len(tasks') |-> [state |-> "scheduled"]]
    /\ pc' = "gather"
    /\ UNCHANGED <<unitVars, page_url, page_number, soup, product_list, idx,
                   books_data, df, csv_file, error, requests_log, sources,
                   visited, html_dir, records, completion,
                   product>>

StartUnitAnyOrder ==
    /\ pc = "gather"
    /\ \E t \in 1..Len(tasks) :
         /\ units[t].state = "scheduled"
         /\ units' = [units EXCEPT ![t] = [state |-> "running"]]
    /\ UNCHANGED <<unitVars, crawlVars, html_dir, tasks, records, completion>>
\* parse_file_async runs to its await: to_thread hands parse_html_file to
\* a thread of the default executor. The event loop runs the tasks' first
\* steps in the order gather scheduled them.
StartUnit ==
    /\ pc = "gather"
    /\ \E t \in 1..Len(tasks) :
         /\ units[t].state = "scheduled"
         /\ \A u \in 1..(t - 1) : units[u].state # "scheduled"
         /\ units' = [units EXCEPT ![t] = [state |-> "running"]]
    /\ UNCHANGED <<unitVars, crawlVars, html_dir, tasks, records, completion>>

FinishUnitExtending ==
    /\ \E t \in 1..Len(tasks), ok \in BOOLEAN :
         /\ units[t].state = "running"
         /\ units' = [units EXCEPT ![t] =
               IF ok THEN [state |-> "done",
                           result |-> ParseHtmlFile(FileOf(tasks[t]))]
               ELSE [state |-> "failed", exception |-> [type |-> "OSError"]]]
         /\ records' = IF ~ok THEN records
                       ELSE Some((IF records = None THEN <<>> ELSE records[1])
                                   \o ParseHtmlFile(FileOf(tasks[t])))
         /\ completion' = Append(completion, t)
    /\ UNCHANGED <<unitVars, crawlVars, html_dir, tasks>>
\* The thread of a unit ends: parse_html_file returned the file's records,
\* or raised because the file could not be read.
FinishUnit ==
    /\ \E t \in 1..Len(tasks), ok \in BOOLEAN :
         /\ units[t].state = "running"
         /\ units' = [units EXCEPT ![t] =
               IF ok THEN [state |-> "done",
                           result |-> ParseHtmlFile(FileOf(tasks[t]))]
               ELSE [state |-> "failed", exception |-> [type |-> "OSError"]]]
         /\ completion' = Append(completion, t)
    /\ UNCHANGED <<unitVars, crawlVars, html_dir, tasks, records>>

\* asyncio.gather(*tasks): the results in the order of the arguments.
GatherByCompletion == [j \in 1..Len(completion) |-> units[completion[j]].result]
Gather == [t \in 1..Len(tasks) |-> units[t].result]

\* Lines 54-62: every unit is done; flatten, build the frame, convert the
\* numeric columns. An empty frame has no column: df['id'] raises KeyError.
GatherReturns ==
    /\ pc = "gather"
    /\ \A t \in 1..Len(tasks) : units[t].state = "done"
    /\ records' = Some(Flatten(Gather))
    /\ IF records'[1] = <<>>
       THEN /\ Fail([type |-> "KeyError"])
            /\ UNCHANGED df
       ELSE /\ df' = Some([columns |-> AsyncColumns,
                           rows |-> [r \in 1..Len(records'[1]) |->
                              [c \in DOMAIN records'[1][r] |->
                                 IF c \in numeric_cols
                                 THEN ToNumeric(records'[1][r][c])
                                 ELSE records'[1][r][c]]]])
            /\ pc' = "done"
            /\ UNCHANGED error
    /\ UNCHANGED <<unitVars, page_url, page_number, soup, product_list, idx,
                   books_data, csv_file, requests_log, sources, visited,
                   html_dir, tasks, units, completion,
                   product>>

\* Line 54: a unit raised; gather hands the first exception to its awaiter
\* at once, and it leaves scrape_all_pages_async and main. asyncio.run then
\* cancels the tasks that have not started; a thread that runs is not
\* interrupted.
GatherRaises ==
    /\ pc = "gather"
    /\ \E j \in 1..Len(completion) :
         /\ units[completion[j]].state = "failed"
         /\ \A k \in 1..(j - 1) : units[completion[k]].state # "failed"
         /\ Fail(units[completion[j]].exception)
    /\ units' = [t \in 1..Len(tasks) |->
                   IF units[t].state = "scheduled"
                   THEN [state |-> "cancelled"] ELSE units[t]]
    /\ UNCHANGED <<unitVars, page_url, page_number, soup, product_list, idx,
                   books_data, df, csv_file, requests_log, sources, visited,
                   html_dir, tasks, records, completion,
                   product>>

Init == InitCrawl \/ InitAsync
Next ==
    \/ FetchListing \/ ProcessProduct \/ NextPage \/ WriteCsv
    \/ CreateTasks \/ StartUnit \/ FinishUnit \/ GatherReturns \/ GatherRaises
Spec == Init /\ [][Next]_vars
\* The interpreter runs main() to its end: a step that can be taken is taken.
FairSpec == Spec /\ WF_vars(Next)

\* --------------------------------------------------------------- claims

\* C5 (as stated): parse_rating returns the matching integer for a vocabulary
\* word and 0 for every string that is not exactly a vocabulary word,
\* vocabulary words with surrounding whitespace included.
C5_ExactWordOnly ==
    (fn = "parse_rating" /\ ret.called) =>
        /\ ~ret.raised
        /\ ret.value = IF Len(arg) = 1 /\ arg[1] \in Vocabulary
                       THEN ratings_map[arg[1]] ELSE 0

\* C5 (amended): parse_rating never raises; it returns the matching integer
\* when the string is one vocabulary word with any whitespace around it, and
\* 0 for every other string (empty, other case, unknown word, two words).
C5_PaddedWord ==
    (fn = "parse_rating" /\ ret.called) =>
        /\ ~ret.raised
        /\ ret.value \in 0..5
        /\ ret.value =
             IF \E p \in 1..Len(arg) :
                    /\ arg[p] \in Vocabulary
                    /\ \A q \in 1..Len(arg) : q # p => arg[q] \in Whitespace
             THEN ratings_map[
                    arg[CHOOSE p \in 1..Len(arg) : arg[p] \in Vocabulary]]
             ELSE 0

C5_Witness ==
    /\ fn = "parse_rating" /\ ret.called
    /\ arg = <<" ", "Three", "\t">>
    /\ ret.value = 3

\* C6 (as stated): for every suffix and every k the resolved locator is
\* catalogue root + suffix whatever k is, and holds no "../" segment.
C6_NoSegmentLeft ==
    (fn = "product_url" /\ ret.called) =>
        /\ ret.value = ProductUrl(arg.suffix)
        /\ ~Contains(ret.value, DotDotSlash)

\* C6 (amended): for every suffix and every k the resolved locator is the
\* one resolved from the suffix alone (k = 0); when the suffix itself holds
\* no "../" it is catalogue root + suffix and holds no "../" segment.
C6_PrefixIndependent ==
    (fn = "product_url" /\ ret.called) =>
        /\ ret.value = ProductUrl(arg.suffix)
        /\ ~Contains(arg.suffix, DotDotSlash) =>
              /\ ret.value = CatalogueRoot \o arg.suffix
              /\ ~Contains(ret.value, DotDotSlash)

C6_Witness ==
    /\ fn = "product_url" /\ ret.called
    /\ arg.k = 2 /\ arg.suffix = <<"a", "/", "a">>
    /\ ret.value = CatalogueRoot \o <<"a", "/", "a">>

\* C9: parse_product_page never fails because an optional element is absent
\* or incomplete: whatever the breadcrumb, the table rows and the
\* description block are, it returns the nine fields, each found or None.
C9_DetailNeverRaises ==
    (fn = "parse_product_page" /\ ret.called) =>
        /\ ~ret.raised
        /\ \A i \in 1..Len(DetailFields) :
              ret.value[DetailFields[i]] = None
                \/ IsStr(ret.value[DetailFields[i]])

\* C8: writing a record sequence to the sink and reading it back recovers
\* the same value for every present field and a missing marker for every
\* absent one: a present field, empty or not, is never read back as missing.
C8_RoundTrip ==
    (fn = "to_csv" /\ ret.called) =>
        /\ Len(ret.value) = Len(arg)
        /\ \A r \in 1..Len(arg) : \A c \in ColumnSet :
              ret.value[r][c] = arg[r][c]

\* ------------------------------------------------- helpers of the claims

IsCrawl == fn = "scrape_books_bs.main"
IsAsync == fn = "scrape_local_async.main"

\* The members of a set of numbers, ascending.
RECURSIVE Ascending(_)
Ascending(S) ==
    IF S = {} THEN <<>>
    ELSE LET least == CHOOSE x \in S : \A y \in S : x <= y
         IN  <<least>> \o Ascending(S \ {least})

\* <<page, container>> for the first upto containers of a parsed listing,
\* in document order.
PageSources(v, upto) ==
    LET all == Ascending(v.containers)
    IN  [j \in 1..upto |-> <<v.page, all[j]>>]

\* The containers read so far: every one of the earlier listings, and the
\* first idx - 1 of the listing being read.
RECURSIVE ReadSoFar(_)
ReadSoFar(n) ==
    IF n = 0 THEN <<>>
    ELSE IF n = Len(visited) THEN ReadSoFar(n - 1) \o PageSources(visited[n], idx - 1)
    ELSE ReadSoFar(n - 1)
           \o PageSources(visited[n], Cardinality(visited[n].containers))

IsPrefix(a, b) == Len(a) <= Len(b) /\ SubSeq(b, 1, Len(a)) = a

\* What parsing the files one after the other, in the order given, and
\* extending one list with each result yields.
RECURSIVE SequentialExtend(_, _)
SequentialExtend(files, acc) ==
    IF files = <<>> THEN acc
    ELSE SequentialExtend(Tail(files), acc \o ParseHtmlFile(FileOf(Head(files))))

\* C1: whatever the order in which the units complete, the records the
\* concurrent variant assembles are, index for index, those a sequential
\* pass over the same files yields: submission order, not completion order.
C1_SubmissionOrder ==
    (IsAsync /\ records # None) =>
        /\ Len(records[1]) = Len(SequentialExtend(tasks, <<>>))
        /\ \A j \in 1..Len(records[1]) :
              records[1][j] = SequentialExtend(tasks, <<>>)[j]

C1_Witness ==
    /\ IsAsync /\ records # None
    /\ Len(tasks) >= 2
    /\ completion[1] = 2
    /\ Len(records[1]) >= 2
    /\ records[1][1]["id"] = Str(<<"1">>)

\* C2: when the k-th detail fetch of a page fails, the crawl is in its
\* terminal failed state with the exception naming the locator just
\* requested, the accumulator holds the records of the earlier pages and of
\* the first k - 1 items of this page and no other, no frame was built and
\* the sink was not invoked, and no step follows.
C2_FailFast ==
    (IsCrawl /\ error # None /\ error[1].type = "HTTPError"
       /\ error[1].url # page_url) =>
        /\ pc = "failed"
        /\ error[1].url = requests_log[Len(requests_log)]
        /\ Len(books_data) = Len(sources)
        /\ \A j \in 1..Len(sources) :
              \/ sources[j][1] < page_number
              \/ /\ sources[j][1] = page_number
                 /\ \E m \in 1..(idx - 1) : sources[j][2] = product_list[m]
        /\ \A m \in 1..(idx - 1) :
              \E j \in 1..Len(sources) :
                 sources[j] = <<page_number, product_list[m]>>
        /\ df = None /\ csv_file = None
        /\ ~ENABLED Next

C2_Witness ==
    /\ IsCrawl /\ pc = "failed" /\ error[1].type = "HTTPError"
    /\ error[1].url # page_url
    /\ page_number = 2 /\ idx = 2 /\ Len(product_list) = 2
    /\ Len(books_data) = 3
    /\ csv_file = None

\* C3: a crawl always ends, failed or Done and then saved; it leaves the
\* loop for Done only on a listing whose containers are all read and that
\* holds no next link, and the sink gets the frame only once Done.
C3_ReachesDone ==
    /\ IsCrawl => <>(pc = "failed" \/ pc = "saved")
    /\ [][(IsCrawl /\ pc # "done" /\ pc' = "done") =>
            /\ soup[1].next = None \/ soup[1].next[1] = None
            /\ idx > Len(product_list)
            /\ error = None]_vars
    /\ [][(IsCrawl /\ csv_file' # csv_file) =>
            (pc = "done" /\ csv_file' = Some(ToCsv(DataFrame(books_data))))]_vars
    /\ [][(IsCrawl /\ soup # None /\ pc = "products" /\ pc' = "fetch_listing") =>
            (soup[1].next # None /\ soup[1].next[1] # None)]_vars

C3_Witness ==
    /\ IsCrawl /\ pc = "saved"
    /\ page_number = 2
    /\ Len(visited) = 2
    /\ Len(books_data) = 2

\* C4: in every state the accumulator holds one record per container read
\* so far, page after page in visit order and in document order within a
\* page; a step only appends to it; and the rows the sink writes are the
\* accumulated records in that order. In the concurrent variant the
\* flattened list is the files' records, file after file in submission
\* order, and the rows written follow it.
C4_AccumulationOrder ==
    /\ [](IsCrawl =>
            /\ sources = ReadSoFar(Len(visited))
            /\ Len(books_data) = Len(sources)
            /\ csv_file # None =>
                 /\ Len(csv_file[1].lines) = Len(books_data)
                 /\ \A r \in 1..Len(books_data) : \A c \in 1..Len(Columns) :
                       csv_file[1].lines[r][c] = CsvCell(books_data[r][Columns[c]]))
    /\ [](IsAsync /\ records # None =>
            /\ Len(records[1]) = Len(Flatten([t \in 1..Len(tasks) |->
                                      FileOf(tasks[t]).rows]))
            /\ \A r \in 1..Len(records[1]) :
                  records[1][r]["id"] =
                    Str(Decimal(Flatten([t \in 1..Len(tasks) |->
                                           FileOf(tasks[t]).rows])[r]))
            /\ csv_file # None =>
                 /\ Len(csv_file[1].lines) = Len(records[1])
                 /\ \A r \in 1..Len(records[1]) :
                       csv_file[1].lines[r][1] =
                         CsvCell(ToNumeric(records[1][r]["id"])))
    /\ [][IsPrefix(books_data, books_data')]_vars
    /\ [][records # None => records' = records]_vars

C4_Witness ==
    /\ IsCrawl /\ pc = "saved"
    /\ Len(visited) = 2
    /\ Len(books_data) = 3
    /\ books_data[2] # books_data[3]
    /\ sources = <<<<1, 2>>, <<2, 1>>, <<2, 2>>>>

\* C7: on a listing without next link the containers found are exactly the
\* document's article.product_pod elements in document order; once they are
\* all read the page has yielded one record per container, the i-th from
\* the i-th container, and the crawl fetches no further listing.
C7_ListingSummaries ==
    (IsCrawl /\ soup # None
       /\ (soup[1].next = None \/ soup[1].next[1] = None)) =>
        /\ Len(product_list) =
             Cardinality({j \in 1..Len(soup[1].elements) :
                            soup[1].elements[j] = "article.product_pod"})
        /\ \A m \in 1..Len(product_list) :
              /\ soup[1].elements[product_list[m]] = "article.product_pod"
              /\ \A n \in 1..Len(product_list) :
                    m < n => product_list[m] < product_list[n]
        /\ pc # "fetch_listing"
        /\ (idx > Len(product_list)) =>
              /\ Len(sources) >= Len(product_list)
              /\ \A m \in 1..Len(product_list) :
                    sources[Len(sources) - Len(product_list) + m] =
                      <<page_number, product_list[m]>>
              /\ \A j \in 1..(Len(sources) - Len(product_list)) :
                    sources[j][1] < page_number

C7_Witness ==
    /\ IsCrawl /\ pc = "done"
    /\ soup[1].next = None
    /\ soup[1].elements = <<"article.product_pod", "article.product_pod">>
    /\ sources = <<<<1, 1>>, <<1, 2>>>>

\* C10: a get_soup call issues one request; a non-success status makes the
\* crawl fail at once, on that one request; after a failure no request is
\* issued any more.
C10_OneAttempt ==
    [][IsCrawl =>
         /\ Len(requests_log') <= Len(requests_log) + 1
         /\ IsPrefix(requests_log, requests_log')
         /\ (error = None /\ error' # None /\ error'[1].type = "HTTPError") =>
               /\ requests_log' = Append(requests_log, error'[1].url)
               /\ error'[1].status >= 400
               /\ pc' = "failed"
         /\ error # None => requests_log' = requests_log]_vars

C10_Witness ==
    /\ IsCrawl /\ pc = "failed"
    /\ error[1].type = "HTTPError" /\ error[1].status = 500
    /\ Len(requests_log) = 3
    /\ requests_log[3] = error[1].url
    /\ requests_log[2] # error[1].url

\* An entry lacks a mandatory element: the title anchor, the price, the
\* stock phrase or the rating tag is absent, or the price text has no digit.
MandatoryMissing(entry) ==
    \/ entry.anchor = None
    \/ entry.price_color = None
    \/ entry.instock = None
    \/ entry.star = None
    \/ /\ entry.price_color # None
       /\ \A j \in 1..Len(entry.price_color[1]) :
             entry.price_color[1][j] \notin Digits

\* C11: once the loop has read an entry that lacks a mandatory element, the
\* crawl is in its terminal failed state with the exception that element
\* raised; the accumulator holds the records of the containers read before
\* and none for this entry, no frame was built, the sink was not invoked,
\* and no step follows.
C11_MandatoryFatal ==
    (IsCrawl /\ product # None /\ MandatoryMissing(product[1])) =>
        /\ pc = "failed"
        /\ error # None
        /\ error[1].type \in {"AttributeError", "ValueError", "TypeError"}
        /\ sources = ReadSoFar(Len(visited))
        /\ Len(books_data) = Len(sources)
        /\ \A j \in 1..Len(sources) :
              sources[j] # <<page_number, product_list[idx]>>
        /\ df = None /\ csv_file = None
        /\ ~ENABLED Next

C11_Witness ==
    /\ IsCrawl /\ pc = "failed"
    /\ product = Some([Alpha EXCEPT !.price_color = Some(<<"£">>)])
    /\ error[1].type = "ValueError"
    /\ idx = 2 /\ Len(books_data) = 1

\* C12: once a unit's failure has left gather, the error is that of the
\* unit that failed first, no unit is still running (each is done, failed
\* or cancelled), and nothing was flattened, framed or written.
C12_CancelOutstanding ==
    (IsAsync /\ pc = "failed"
       /\ \E t \in 1..Len(tasks) : units[t].state = "failed") =>
        /\ \E j \in 1..Len(completion) :
              /\ units[completion[j]].state = "failed"
              /\ \A k \in 1..(j - 1) : units[completion[k]].state # "failed"
              /\ error = Some(units[completion[j]].exception)
        /\ \A t \in 1..Len(tasks) :
              units[t].state \in {"done", "failed", "cancelled"}
        /\ records = None /\ df = None /\ csv_file = None

\* The units in flight: handed to gather and neither finished nor cancelled.
InFlight ==
    {t \in 1..Len(units) : units[t].state \in {"scheduled", "running"}}

C14_ListingNotParallel ==
    IsAsync =>
        /\ Cardinality({t \in 1..Len(units) : units[t].state = "running"}) <= 1
        /\ \A t \in 1..Len(units) : \A u \in 1..(t - 1) :
              units[t].state \in {"running", "done", "failed"} =>
                 units[u].state \in {"done", "failed"}

\* C14 (amended): the page files are the parallel units, and what is
\* sequential is their dispatch: there is one unit per page file, each page
\* file belongs to exactly one unit, the units stand in sorted file-name
\* order, and a page file is handed to a thread only when every page file
\* before it has been.
C14_DispatchInOrder ==
    (IsAsync /\ pc # "create_tasks") =>
        /\ Len(units) = Len(tasks)
        /\ {tasks[t] : t \in 1..Len(tasks)} =
             {f.name : f \in {g \in html_dir : g.name.ext = ".html"}}
        /\ \A t \in 1..Len(tasks) : \A u \in 1..(t - 1) :
              /\ tasks[u] # tasks[t]
              /\ LexLess(NameKey(tasks[u]), NameKey(tasks[t]))
              /\ units[t].state # "scheduled" => units[u].state # "scheduled"

C14_Witness ==
    /\ IsAsync /\ pc = "gather"
    /\ Len(tasks) = 3
    /\ units[1].state = "running" /\ units[2].state = "running"
    /\ units[3].state = "scheduled"

\* C15: the flattened list exists only when every unit is done; the step
\* that writes it is the dispatcher's, after gather returned with every
\* unit done, and it is no step of a unit: a step of a unit leaves the
\* list as it is.
C15_DispatcherWrites ==
    /\ [](IsAsync /\ records # None =>
            \A t \in 1..Len(tasks) : units[t].state = "done")
    /\ [][(IsAsync /\ records' # records) =>
            /\ pc = "gather"
            /\ \A t \in 1..Len(tasks) : units[t].state = "done"
            /\ units' = units /\ completion' = completion]_vars
    /\ [][(IsAsync /\ units' # units) => records' = records]_vars

C15_Witness ==
    /\ IsAsync /\ pc = "saved"
    /\ Len(tasks) = 2 /\ completion = <<2, 1>>
    /\ records # None /\ Len(records[1]) = 3

\* The locators of the listing pages.
ListingUrls == {PageUrl(n) : n \in 1..Len(PageNames)}
\* How many of the requests issued so far went to a locator.
TimesRequested(url) ==
    Cardinality({j \in 1..Len(requests_log) : requests_log[j] = url})

\* C16: on a site whose next links form a forward chain, no listing locator
\* is requested twice and no listing is parsed twice; the cursor moves only
\* from a locator that was requested exactly once and whose listing is the
\* one just read, to a locator not requested so far.
C16_NoRefetch ==
    /\ [](IsCrawl =>
            /\ \A url \in ListingUrls : TimesRequested(url) <= 1
            /\ \A i \in 1..Len(visited) : \A j \in 1..Len(visited) :
                  i # j => visited[i].url # visited[j].url)
    /\ [][(IsCrawl /\ page_url' # page_url) =>
            /\ TimesRequested(page_url) = 1
            /\ visited[Len(visited)].url = page_url
            /\ TimesRequested(page_url') = 0]_vars

C16_Witness ==
    /\ IsCrawl /\ pc = "products"
    /\ Len(visited) = 2
    /\ visited[1].url = PageUrl(1) /\ visited[2].url = PageUrl(2)
    /\ TimesRequested(PageUrl(1)) = 1 /\ TimesRequested(PageUrl(2)) = 1
    /\ TimesRequested(CatalogueRoot \o <<"a">>) = 2

====
